---- MODULE Spec2Model ----
(***************************************************************************)
(* LuliReader icon scripts: generate_icons.py (create_rss_icon, the        *)
(* Android and iOS asset loops, update_ios_contents_json, the __main__     *)
(* block) and assets/icon/create_icon.py (create_icon).                    *)
(*                                                                         *)
(* An image is its size and the list of drawing primitives applied to it,  *)
(* in order; ImageDraw paints without blending, so a pixel has the ink of  *)
(* the last primitive that covers it and is transparent when none does.    *)
(* Coordinates are kept in 1/SCALE pixel: every float of the code is a     *)
(* multiple of 0.01 * size.                                                *)
(***************************************************************************)
EXTENDS Integers, Sequences, FiniteSets, TLC

----------------------------------------------------------------------------
(* Bounds of the model *)

\* create_rss_icon / create_icon are drawn for every size 1..MaxSize
MaxSize == 24
\* a manifest holds at most MaxEntries image entries
MaxEntries == 2
\* at most MaxHeld writes are held back by the reordering scheduler
MaxHeld == 1

----------------------------------------------------------------------------
(* Colours, images, primitives *)

SCALE == 100

NoInk == <<>>
Transparent == <<0, 0, 0, 0>>
\* ImageDraw's default ink for an RGBA image (used when neither fill nor
\* outline is given)
DefaultInk == <<255, 255, 255, 255>>

Min2(a, b) == IF a <= b THEN a ELSE b
Max2(a, b) == IF a >= b THEN a ELSE b

\* faulty variant, for comparison: the canvas is one pixel too wide
RssImageNew_OffByOne(size) == [width |-> size + 1, height |-> size, ops |-> <<>>]

\* Image.new('RGBA', (size, size), (0, 0, 0, 0))
RssImageNew(size) == [width |-> size, height |-> size, ops |-> <<>>]
IconImageNew(size) == [width |-> size, height |-> size, ops |-> <<>>]

Prim(kind, box, fill, outline, width, start, end, part) ==
    [kind |-> kind, box |-> box, fill |-> fill, outline |-> outline,
     width |-> width, start |-> start, end |-> end, part |-> part]

\* one draw.<primitive>(...) call on the image
Draw(img, op) == [img EXCEPT !.ops = Append(@, op)]

Inverted(op) ==
    /\ op.kind \in {"rectangle", "ellipse"}
    /\ (op.box[3] < op.box[1] \/ op.box[4] < op.box[2])

\* the box with its corners in order (what the rasteriser of a Pillow that
\* accepts an inverted box paints)
Normal(box) ==
    <<Min2(box[1], box[3]), Min2(box[2], box[4]),
      Max2(box[1], box[3]), Max2(box[2], box[4])>>

Shrink(box, w) == <<box[1] + w * SCALE, box[2] + w * SCALE,
                    box[3] - w * SCALE, box[4] - w * SCALE>>

\* squares stay inside TLC's integers: big circles are compared in coarser units
Unit(d) == (d \div 30000) + 1
Sq(v, u) == (v \div u) * (v \div u)

InBox(box, x, y) ==
    /\ box[1] <= x * SCALE /\ x * SCALE <= box[3]
    /\ box[2] <= y * SCALE /\ y * SCALE <= box[4]

\* pixel (x, y) inside the circle inscribed in box (every ellipse and arc of
\* the two scripts has a square box)
InEllipse(box, x, y) ==
    /\ InBox(box, x, y)
    /\ LET d == box[3] - box[1]
           dx == 2 * x * SCALE - (box[1] + box[3])
           dy == 2 * y * SCALE - (box[2] + box[4])
           u == Unit(d)
       IN Sq(dx, u) + Sq(dy, u) <= Sq(d, u)

StrictlyInEllipse(box, x, y) ==
    /\ box[1] < box[3] /\ box[2] < box[4]
    /\ InBox(box, x, y)
    /\ LET d == box[3] - box[1]
           dx == 2 * x * SCALE - (box[1] + box[3])
           dy == 2 * y * SCALE - (box[2] + box[4])
           u == Unit(d)
       IN Sq(dx, u) + Sq(dy, u) < Sq(d, u)

\* direction of (dx, dy) in sixteenths of a turn: even codes are the rays at
\* multiples of 45 degrees, odd codes the open sectors between them. Angles
\* are measured from 3 o'clock, increasing clockwise (y grows downwards).
Direction(dx, dy) ==
    CASE dy = 0 /\ dx > 0 -> 0
      [] dx > 0 /\ dy > 0 /\ dy < dx -> 1
      [] dx > 0 /\ dy > 0 /\ dy = dx -> 2
      [] dx > 0 /\ dy > 0 /\ dy > dx -> 3
      [] dx = 0 /\ dy > 0 -> 4
      [] dx < 0 /\ dy > 0 /\ dy > -dx -> 5
      [] dx < 0 /\ dy > 0 /\ dy = -dx -> 6
      [] dx < 0 /\ dy > 0 /\ dy < -dx -> 7
      [] dy = 0 /\ dx < 0 -> 8
      [] dx < 0 /\ dy < 0 /\ -dy < -dx -> 9
      [] dx < 0 /\ dy < 0 /\ -dy = -dx -> 10
      [] dx < 0 /\ dy < 0 /\ -dy > -dx -> 11
      [] dx = 0 /\ dy < 0 -> 12
      [] dx > 0 /\ dy < 0 /\ -dy > dx -> 13
      [] dx > 0 /\ dy < 0 /\ -dy = dx -> 14
      [] dx > 0 /\ dy < 0 /\ -dy < dx -> 15
      [] OTHER -> 0

\* (x, y) seen from the centre of box lies between the angles start and end
\* (multiples of 45 degrees)
InSector(box, x, y, start, end) ==
    LET dx == 2 * x * SCALE - (box[1] + box[3])
        dy == 2 * y * SCALE - (box[2] + box[4])
        s == ((start \div 45) * 2) % 16
        e == ((end \div 45) * 2) % 16
    IN \/ dx = 0 /\ dy = 0
       \/ ((Direction(dx, dy) - s) % 16) <= ((e - s) % 16)

\* the pixels a primitive paints
Covers(op, x, y) ==
    CASE op.kind = "rectangle" ->
            InBox(Normal(op.box), x, y)
      [] op.kind = "ellipse" ->
            IF op.fill # NoInk
            THEN InEllipse(Normal(op.box), x, y)
            ELSE /\ InEllipse(Normal(op.box), x, y)
                 /\ ~StrictlyInEllipse(Shrink(Normal(op.box), 1), x, y)
      [] op.kind = "arc" ->
            /\ InEllipse(op.box, x, y)
            /\ ~StrictlyInEllipse(Shrink(op.box, op.width), x, y)
            /\ InSector(op.box, x, y, op.start, op.end)
      [] op.kind = "line" ->
            /\ Min2(op.box[1], op.box[3]) <= x * SCALE
            /\ x * SCALE <= Max2(op.box[1], op.box[3])
            /\ op.box[2] - (op.width \div 2) * SCALE <= y * SCALE
            /\ y * SCALE <= op.box[4] + ((op.width - 1) \div 2) * SCALE
      [] OTHER -> FALSE

\* _getink: the fill, else the outline, else the default ink
Ink(op) ==
    IF op.fill # NoInk THEN op.fill
    ELSE IF op.outline # NoInk THEN op.outline
    ELSE DefaultInk

OnCanvas(img, x, y) ==
    x \in 0..(img.width - 1) /\ y \in 0..(img.height - 1)

\* index of the primitive whose ink pixel (x, y) shows, 0 when none
TopOp(img, x, y) ==
    LET hit == {i \in 1..Len(img.ops) : Covers(img.ops[i], x, y)}
    IN IF hit = {} THEN 0 ELSE CHOOSE i \in hit : \A j \in hit : j <= i

Pixel(img, x, y) ==
    LET i == TopOp(img, x, y)
    IN IF i = 0 THEN Transparent ELSE Ink(img.ops[i])

----------------------------------------------------------------------------
(* generate_icons.py: create_rss_icon *)

\* faulty variant, for comparison: is_dark_mode is ignored, the light colours are always used
RssColors_IgnoresMode(is_dark_mode) ==
    [icon_color |-> <<33, 150, 243, 255>>, bg_color |-> <<255, 255, 255, 255>>]

\* the two colours chosen by is_dark_mode
RssColors(is_dark_mode) ==
    IF is_dark_mode
    THEN [icon_color |-> <<255, 255, 255, 255>>, bg_color |-> <<30, 30, 30, 255>>]
    ELSE [icon_color |-> <<33, 150, 243, 255>>, bg_color |-> <<255, 255, 255, 255>>]

\* center_x = center_y = size / 2
RssCenter(size) == (size * SCALE) \div 2

\* line_width = max(2, int(size * 0.06))
RssLineWidth(size) == Max2(2, (6 * size) \div 100)

\* [center - radius, center - radius, center + radius, center + radius],
\* radius = size * pct / 100
RssBox(size, pct) ==
    <<RssCenter(size) - size * pct, RssCenter(size) - size * pct,
      RssCenter(size) + size * pct, RssCenter(size) + size * pct>>

\* draw.arc(bbox, arc_start_angle, arc_end_angle, fill=icon_color, width=line_width)
RssArc(size, is_dark_mode, pct) ==
    Prim("arc", RssBox(size, pct), RssColors(is_dark_mode).icon_color, NoInk,
         RssLineWidth(size), -45, 225, "arc")

\* the draw calls of create_rss_icon, in order
RssProgram(size, is_dark_mode) ==
    << Prim("rectangle", <<0, 0, size * SCALE, size * SCALE>>,
            RssColors(is_dark_mode).bg_color, NoInk, 0, 0, 0, "background"),
       Prim("ellipse", RssBox(size, 8),
            RssColors(is_dark_mode).icon_color, NoInk, 0, 0, 0, "circle"),
       RssArc(size, is_dark_mode, 35),
       RssArc(size, is_dark_mode, 25),
       RssArc(size, is_dark_mode, 15) >>

RECURSIVE DrawAll(_, _)
DrawAll(img, ops) ==
    IF ops = <<>> THEN img ELSE DrawAll(Draw(img, Head(ops)), Tail(ops))

create_rss_icon(size, is_dark_mode) ==
    DrawAll(RssImageNew(size), RssProgram(size, is_dark_mode))

----------------------------------------------------------------------------
(* assets/icon/create_icon.py: create_icon *)

\* create_icon(size=1024, ...), and the size main passes
DefaultIconSize == 1024

IconColors(is_dark) ==
    IF is_dark
    THEN [primary_color |-> <<255, 255, 255, 255>>,
          secondary_color |-> <<200, 200, 200, 255>>,
          bg_color |-> <<30, 30, 30, 255>>,
          page_color |-> <<50, 50, 50, 200>>,
          line_color |-> <<200, 200, 200, 150>>]
    ELSE [primary_color |-> <<66, 133, 244, 255>>,
          secondary_color |-> <<25, 118, 210, 255>>,
          bg_color |-> <<255, 255, 255, 255>>,
          page_color |-> <<255, 255, 255, 200>>,
          line_color |-> <<100, 100, 100, 150>>]

margin(size) == size \div 10
book_width(size) == size \div 2
\* size // 1.5: the floor of size / 1.5
book_height(size) == (2 * size) \div 3
book_x(size) == (size - book_width(size)) \div 2
book_y(size) == size \div 4
rss_x(size) == book_x(size) + book_width(size) \div 2
rss_y(size) == book_y(size) + book_height(size) + size \div 8
rss_size(size) == size \div 6
dot_size(size) == size \div 40

\* a box given in whole pixels
PxBox(x0, y0, x1, y1) == <<x0 * SCALE, y0 * SCALE, x1 * SCALE, y1 * SCALE>>

\* y = book_y + (book_height // 10) * i; draw.line([book_x + 15, y, book_x + book_width - 15, y], width=2)
IconTextLine(size, is_dark, i) ==
    LET y == book_y(size) + (book_height(size) \div 10) * i
    IN Prim("line", PxBox(book_x(size) + 15, y, book_x(size) + book_width(size) - 15, y),
            IconColors(is_dark).line_color, NoInk, 2, 0, 0, "text")

\* radius = rss_size * tenths / 10; draw.arc(bbox, start=45, end=135, width=size // 50)
IconArc(size, is_dark, tenths) ==
    LET r == rss_size(size) * tenths * (SCALE \div 10)
    IN Prim("arc",
            <<rss_x(size) * SCALE - r, rss_y(size) * SCALE - r,
              rss_x(size) * SCALE + r, rss_y(size) * SCALE + r>>,
            IconColors(is_dark).primary_color, NoInk, size \div 50, 45, 135, "rss")

IconDot(size, is_dark) ==
    Prim("ellipse",
         PxBox(rss_x(size) - dot_size(size), rss_y(size) - dot_size(size),
               rss_x(size) + dot_size(size), rss_y(size) + dot_size(size)),
         IconColors(is_dark).primary_color, NoInk, 0, 0, 0, "rss")

\* the draw calls of create_icon, in order
IconProgram(size, is_dark) ==
    << Prim("ellipse",
            PxBox(margin(size), margin(size), size - margin(size), size - margin(size)),
            IF is_dark THEN IconColors(is_dark).bg_color ELSE NoInk, NoInk,
            0, 0, 0, "background"),
       Prim("rectangle",
            PxBox(book_x(size), book_y(size),
                  book_x(size) + book_width(size), book_y(size) + book_height(size)),
            IconColors(is_dark).primary_color, NoInk, 0, 0, 0, "book"),
       Prim("rectangle",
            PxBox(book_x(size) + 5, book_y(size) + 5,
                  book_x(size) + book_width(size) - 5,
                  book_y(size) + book_height(size) - 5),
            IconColors(is_dark).page_color, NoInk, 0, 0, 0, "book"),
       IconTextLine(size, is_dark, 3),
       IconTextLine(size, is_dark, 4),
       IconTextLine(size, is_dark, 5),
       IconTextLine(size, is_dark, 6),
       IconTextLine(size, is_dark, 7),
       IconArc(size, is_dark, 3),
       IconDot(size, is_dark),
       IconArc(size, is_dark, 5),
       IconArc(size, is_dark, 7) >>

create_icon(size, is_dark) ==
    DrawAll(IconImageNew(size), IconProgram(size, is_dark))

----------------------------------------------------------------------------
(* State *)

VARIABLES
    \* a run of generate_icons.py
    pc,         \* position of the run in the script
    idx,        \* index of the current loop iteration
    made,       \* the current Android iteration has done its os.makedirs
    fs,         \* the files on disk
    dirs,       \* the directories os.makedirs created or confirmed in this run
    images,     \* contents['images'] once update_ios_contents_json has loaded it
    read_form,  \* what open / json.load found when the manifest was read
    log,        \* history: the makedirs, saves, copies and the raise of this run
    \* one call of a drawing routine in light mode, then one in dark mode
    d_routine, d_size, d_dark, d_img, d_k, d_pc, d_light, d_night,
    \* the writes of a run, taken in another order
    o_pc, o_fs, o_todo, o_held, o_ref, o_early, o_moved

runVars == <<pc, idx, made, fs, dirs, images, read_form, log>>
drawVars == <<d_routine, d_size, d_dark, d_img, d_k, d_pc, d_light, d_night>>
orderVars == <<o_pc, o_fs, o_todo, o_held, o_ref, o_early, o_moved>>
vars == <<runVars, drawVars, orderVars>>

NoImage == [width |-> 0, height |-> 0, ops |-> <<>>]

RunIdle ==
    /\ pc = "idle" /\ idx = 0 /\ made = FALSE /\ fs = {} /\ dirs = {}
    /\ images = <<>> /\ read_form = "unread" /\ log = <<>>

DrawIdle ==
    /\ d_routine = "none" /\ d_size = 0 /\ d_dark = FALSE /\ d_img = NoImage
    /\ d_k = 0 /\ d_pc = "idle" /\ d_light = NoImage /\ d_night = NoImage

OrderIdle ==
    /\ o_pc = "idle" /\ o_fs = {} /\ o_todo = <<>> /\ o_held = <<>>
    /\ o_ref = {} /\ o_early = FALSE /\ o_moved = FALSE

----------------------------------------------------------------------------
(* The drawing routines, one primitive at a time *)

\* the sizes of android_sizes and ios_sizes
AndroidSizeSet == {48, 72, 96, 144, 192}
IosSizeSet == {20, 40, 60, 29, 58, 87, 80, 120, 180, 76, 152, 167, 1024}

DrawSizes == (1..MaxSize) \cup AndroidSizeSet \cup IosSizeSet \cup {DefaultIconSize}

Program(routine, size, dark) ==
    IF routine = "create_rss_icon" THEN RssProgram(size, dark) ELSE IconProgram(size, dark)

ImageNew(routine, size) ==
    IF routine = "create_rss_icon" THEN RssImageNew(size) ELSE IconImageNew(size)

DrawInit ==
    /\ d_routine \in {"create_rss_icon", "create_icon"}
    /\ d_size \in DrawSizes
    /\ d_dark = FALSE /\ d_img = NoImage /\ d_k = 0 /\ d_pc = "call"
    /\ d_light = NoImage /\ d_night = NoImage
    /\ RunIdle /\ OrderIdle

\* img = Image.new(...); draw = ImageDraw.Draw(img)
DrawCall ==
    /\ d_pc = "call"
    /\ d_img' = ImageNew(d_routine, d_size)
    /\ d_k' = 0
    /\ d_pc' = "drawing"
    /\ UNCHANGED <<d_routine, d_size, d_dark, d_light, d_night, runVars, orderVars>>

\* the next draw.rectangle / ellipse / arc / line call
DrawPrimitive ==
    /\ d_pc = "drawing"
    /\ d_k < Len(Program(d_routine, d_size, d_dark))
    /\ d_img' = Draw(d_img, Program(d_routine, d_size, d_dark)[d_k + 1])
    /\ d_k' = d_k + 1
    /\ UNCHANGED <<d_routine, d_size, d_dark, d_pc, d_light, d_night, runVars, orderVars>>

\* a box with x1 < x0 or y1 < y0: Pillow from 9.5 on raises ValueError, older
\* ones paint the box with its corners in order (DrawPrimitive)
DrawRaise ==
    /\ d_pc = "drawing"
    /\ d_k < Len(Program(d_routine, d_size, d_dark))
    /\ Inverted(Program(d_routine, d_size, d_dark)[d_k + 1])
    /\ d_pc' = "raised"
    /\ UNCHANGED <<d_routine, d_size, d_dark, d_img, d_k, d_light, d_night, runVars, orderVars>>

\* return img: the light image first, then the same call in dark mode
DrawReturn ==
    /\ d_pc = "drawing"
    /\ d_k = Len(Program(d_routine, d_size, d_dark))
    /\ IF d_dark
       THEN /\ d_night' = d_img
            /\ d_pc' = "finished"
            /\ UNCHANGED <<d_dark, d_light>>
       ELSE /\ d_light' = d_img
            /\ d_dark' = TRUE
            /\ d_pc' = "call"
            /\ UNCHANGED d_night
    /\ UNCHANGED <<d_routine, d_size, d_img, d_k, runVars, orderVars>>

DrawNext == DrawCall \/ DrawPrimitive \/ DrawRaise \/ DrawReturn

SpecDraw == DrawInit /\ [][DrawNext]_vars

----------------------------------------------------------------------------
(* File names, paths and files *)

(* A name is a sequence of tokens; ".png" is one token, so str.replace on   *)
(* '.png' is the replacement of that token wherever it occurs.              *)
RECURSIVE Replace(_, _, _)
Replace(name, old, new) ==
    IF name = <<>> THEN <<>>
    ELSE IF Head(name) = old THEN new \o Replace(Tail(name), old, new)
    ELSE <<Head(name)>> \o Replace(Tail(name), old, new)

\* filename.replace('.png', '-dark.png')
DarkName(filename) == Replace(filename, ".png", <<"-dark", ".png">>)
\* filename.replace('.png', '~dark.png')
VariantName(filename) == Replace(filename, ".png", <<"~dark", ".png">>)
\* faulty variant, for comparison: the night qualifier is not added
NightFolder_Unchanged(folder) == folder
\* folder.replace('mipmap', 'mipmap-night')
NightFolder(folder) == Replace(folder, "mipmap", <<"mipmap", "-night">>)

android_sizes ==
    << [folder |-> <<"mipmap", "-mdpi">>, size |-> 48],
       [folder |-> <<"mipmap", "-hdpi">>, size |-> 72],
       [folder |-> <<"mipmap", "-xhdpi">>, size |-> 96],
       [folder |-> <<"mipmap", "-xxhdpi">>, size |-> 144],
       [folder |-> <<"mipmap", "-xxxhdpi">>, size |-> 192] >>

ios_sizes ==
    << [filename |-> <<"Icon-App-20x20@1x", ".png">>, size |-> 20],
       [filename |-> <<"Icon-App-20x20@2x", ".png">>, size |-> 40],
       [filename |-> <<"Icon-App-20x20@3x", ".png">>, size |-> 60],
       [filename |-> <<"Icon-App-29x29@1x", ".png">>, size |-> 29],
       [filename |-> <<"Icon-App-29x29@2x", ".png">>, size |-> 58],
       [filename |-> <<"Icon-App-29x29@3x", ".png">>, size |-> 87],
       [filename |-> <<"Icon-App-40x40@1x", ".png">>, size |-> 40],
       [filename |-> <<"Icon-App-40x40@2x", ".png">>, size |-> 80],
       [filename |-> <<"Icon-App-40x40@3x", ".png">>, size |-> 120],
       [filename |-> <<"Icon-App-60x60@2x", ".png">>, size |-> 120],
       [filename |-> <<"Icon-App-60x60@3x", ".png">>, size |-> 180],
       [filename |-> <<"Icon-App-76x76@1x", ".png">>, size |-> 76],
       [filename |-> <<"Icon-App-76x76@2x", ".png">>, size |-> 152],
       [filename |-> <<"Icon-App-83.5x83.5@2x", ".png">>, size |-> 167],
       [filename |-> <<"Icon-App-1024x1024@1x", ".png">>, size |-> 1024] >>

\* f'{base_path}/{folder}' with base_path = 'android/app/src/main/res'
AndroidDir(folder) == <<"android/app/src/main/res", "/">> \o folder
ic_launcher == <<"ic_launcher", ".png">>
\* base_path and dark_base_path of generate_ios_icons
light_path == <<"ios/Runner/Assets.xcassets/AppIcon.appiconset">>
dark_path == <<"ios/Runner/Assets.xcassets/AppIcon-Dark.appiconset">>
contents_name == <<"Contents", ".json">>

(* What a file holds. A PNG is kept as the size of the saved image and the  *)
(* colour of its pixel (0, 0), which tell apart all the images a run saves; *)
(* a JSON document as its form and its list of image entries.               *)
Png(img) ==
    [kind |-> "png", width |-> img.width, height |-> img.height,
     corner |-> Pixel(img, 0, 0), form |-> "", entries |-> <<>>]
Json(form, entries) ==
    [kind |-> "json", width |-> 0, height |-> 0, corner |-> NoInk,
     form |-> form, entries |-> entries]
Other == [kind |-> "other", width |-> 0, height |-> 0, corner |-> NoInk,
          form |-> "", entries |-> <<>>]
NoData == [kind |-> "none", width |-> 0, height |-> 0, corner |-> NoInk,
           form |-> "", entries |-> <<>>]

File(dir, name, data) == [dir |-> dir, name |-> name, data |-> data]

\* os.path.exists
Exists(f, dir, name) == \E r \in f : r.dir = dir /\ r.name = name
Read(f, dir, name) ==
    IF Exists(f, dir, name)
    THEN (CHOOSE r \in f : r.dir = dir /\ r.name = name).data
    ELSE NoData
\* a write creates the file or replaces what it held
Write(f, dir, name, data) ==
    LET kept == {r \in f : ~(r.dir = dir /\ r.name = name)}
    IN {r : r \in kept} \cup {File(dir, name, data)}

----------------------------------------------------------------------------
(* The writes of a run *)

WriteOp(kind, dir, name, data, from) ==
    [kind |-> kind, dir |-> dir, name |-> name, data |-> data, from |-> from]

\* icon = create_rss_icon(size, is_dark_mode=...); icon.save(path, 'PNG')
AndroidSave(i, is_dark_mode) ==
    WriteOp("save",
            AndroidDir(IF is_dark_mode THEN NightFolder(android_sizes[i].folder)
                       ELSE android_sizes[i].folder),
            ic_launcher,
            Png(create_rss_icon(android_sizes[i].size, is_dark_mode)), <<>>)

IosSave(i, is_dark_mode) ==
    WriteOp("save",
            IF is_dark_mode THEN dark_path ELSE light_path,
            IF is_dark_mode THEN DarkName(ios_sizes[i].filename) ELSE ios_sizes[i].filename,
            Png(create_rss_icon(ios_sizes[i].size, is_dark_mode)), <<>>)

\* faulty variant, for comparison: the copy goes to the light file itself, not to its '~dark' variant
VariantCopy_OverLight(filename) ==
    WriteOp("copy", light_path, filename, NoData, DarkName(filename))

\* shutil.copy(dark_file_path, f'{light_path}/{variant_filename}'), guarded by
\* os.path.exists(dark_file_path)
VariantCopy(filename) ==
    WriteOp("copy", light_path, VariantName(filename), NoData, DarkName(filename))

Apply(f, op) ==
    IF op.kind = "save" THEN Write(f, op.dir, op.name, op.data)
    ELSE IF Exists(f, dark_path, op.from)
         THEN Write(f, op.dir, op.name, Read(f, dark_path, op.from))
         ELSE f

\* image.get('filename', '')
FilenameOf(image) == IF image.has_filename THEN image.filename ELSE <<>>

----------------------------------------------------------------------------
(* What a run may find on disk *)

\* an image entry of contents['images']: with or without a 'filename' key
Entry(has_filename, filename) == [has_filename |-> has_filename, filename |-> filename]

EntryChoices ==
    { Entry(FALSE, <<>>),
      Entry(TRUE, <<>>),
      Entry(TRUE, <<"Icon-App-20x20@1x", ".png">>),
      Entry(TRUE, <<"Icon-App-20x20@1x", "~dark", ".png">>),
      Entry(TRUE, <<"Contents", ".json">>),
      Entry(TRUE, <<"Icon", ".jpg">>) }

EntryLists == UNION {[1..n -> EntryChoices] : n \in 0..MaxEntries}

\* Contents.json: absent, not JSON, JSON without 'images', or a manifest
ManifestFiles ==
    {{}} \cup
    {{File(light_path, contents_name, Json(form, <<>>))} : form \in {"malformed", "noimages"}} \cup
    {{File(light_path, contents_name, Json("ok", entries))} : entries \in EntryLists}

Jpg(tag) == [Other EXCEPT !.form = tag]

\* files already in the two icon sets before the run
PreExisting ==
    LET contents == {File(dark_path, contents_name, Json("ok", <<>>))}
        jpgs == {File(dark_path, <<"Icon", ".jpg">>, Jpg("dark")),
                 File(light_path, <<"Icon", ".jpg">>, Jpg("light"))}
    IN {{}, contents, jpgs, contents \cup jpgs}

InitialFileSystems == {m \cup p : m \in ManifestFiles, p \in PreExisting}

\* what open(contents_path) / json.load / contents['images'] meet
FormOf(f) ==
    IF Exists(f, light_path, contents_name)
    THEN Read(f, light_path, contents_name).form
    ELSE "missing"
BadForms == {"missing", "malformed", "noimages"}

----------------------------------------------------------------------------
(* generate_icons.py: the run of the __main__ block *)

Event(kind, dir, name, from) == [kind |-> kind, dir |-> dir, name |-> name, from |-> from]
Written(op) == Event(op.kind, op.dir, op.name, op.from)

Init ==
    /\ pc = "android_light" /\ idx = 1 /\ made = FALSE
    /\ fs \in InitialFileSystems
    /\ dirs = {} /\ images = <<>> /\ read_form = "unread" /\ log = <<>>
    /\ DrawIdle /\ OrderIdle

\* os.makedirs(f'{base_path}/{folder}', exist_ok=True) of the light loop
AndroidLightMakedirs ==
    /\ pc = "android_light" /\ ~made
    /\ dirs' = dirs \cup {AndroidDir(android_sizes[idx].folder)}
    /\ log' = Append(log, Event("makedirs", AndroidDir(android_sizes[idx].folder), <<>>, <<>>))
    /\ made' = TRUE
    /\ UNCHANGED <<pc, idx, fs, images, read_form, drawVars, orderVars>>

\* the rest of the iteration: draw the light icon and save it
AndroidLightSave ==
    /\ pc = "android_light" /\ made
    /\ fs' = Apply(fs, AndroidSave(idx, FALSE))
    /\ log' = Append(log, Written(AndroidSave(idx, FALSE)))
    /\ made' = FALSE
    /\ IF idx < Len(android_sizes)
       THEN idx' = idx + 1 /\ pc' = pc
       ELSE idx' = 1 /\ pc' = "android_dark"
    /\ UNCHANGED <<dirs, images, read_form, drawVars, orderVars>>

\* os.makedirs(f'{base_path}/{night_folder}', exist_ok=True)
AndroidDarkMakedirs ==
    /\ pc = "android_dark" /\ ~made
    /\ dirs' = dirs \cup {AndroidDir(NightFolder(android_sizes[idx].folder))}
    /\ log' = Append(log, Event("makedirs", AndroidDir(NightFolder(android_sizes[idx].folder)), <<>>, <<>>))
    /\ made' = TRUE
    /\ UNCHANGED <<pc, idx, fs, images, read_form, drawVars, orderVars>>

AndroidDarkSave ==
    /\ pc = "android_dark" /\ made
    /\ fs' = Apply(fs, AndroidSave(idx, TRUE))
    /\ log' = Append(log, Written(AndroidSave(idx, TRUE)))
    /\ made' = FALSE
    /\ IF idx < Len(android_sizes)
       THEN idx' = idx + 1 /\ pc' = pc
       ELSE idx' = 1 /\ pc' = "ios_light_dir"
    /\ UNCHANGED <<dirs, images, read_form, drawVars, orderVars>>

\* generate_ios_icons: os.makedirs(base_path, exist_ok=True)
IosLightMakedirs ==
    /\ pc = "ios_light_dir"
    /\ dirs' = dirs \cup {light_path}
    /\ log' = Append(log, Event("makedirs", light_path, <<>>, <<>>))
    /\ pc' = "ios_light"
    /\ UNCHANGED <<idx, made, fs, images, read_form, drawVars, orderVars>>

IosLightSave ==
    /\ pc = "ios_light"
    /\ fs' = Apply(fs, IosSave(idx, FALSE))
    /\ log' = Append(log, Written(IosSave(idx, FALSE)))
    /\ IF idx < Len(ios_sizes)
       THEN idx' = idx + 1 /\ pc' = pc
       ELSE idx' = 1 /\ pc' = "ios_dark_dir"
    /\ UNCHANGED <<made, dirs, images, read_form, drawVars, orderVars>>

\* faulty variant, for comparison: the dark icon set's directory is not created
IosDarkMakedirs_Skipped ==
    /\ pc = "ios_dark_dir"
    /\ pc' = "ios_dark"
    /\ UNCHANGED <<idx, made, fs, dirs, images, read_form, log, drawVars, orderVars>>

\* os.makedirs(dark_base_path, exist_ok=True)
IosDarkMakedirs ==
    /\ pc = "ios_dark_dir"
    /\ dirs' = dirs \cup {dark_path}
    /\ log' = Append(log, Event("makedirs", dark_path, <<>>, <<>>))
    /\ pc' = "ios_dark"
    /\ UNCHANGED <<idx, made, fs, images, read_form, drawVars, orderVars>>

IosDarkSave ==
    /\ pc = "ios_dark"
    /\ fs' = Apply(fs, IosSave(idx, TRUE))
    /\ log' = Append(log, Written(IosSave(idx, TRUE)))
    /\ IF idx < Len(ios_sizes)
       THEN idx' = idx + 1 /\ pc' = pc
       ELSE idx' = 1 /\ pc' = "update"
    /\ UNCHANGED <<made, dirs, images, read_form, drawVars, orderVars>>

\* update_ios_contents_json(base_path, dark_base_path): the manifest is opened,
\* parsed and its 'images' list found
UpdateLoad ==
    /\ pc = "update"
    /\ FormOf(fs) = "ok"
    /\ read_form' = "ok"
    /\ images' = Read(fs, light_path, contents_name).entries
    /\ log' = Append(log, Event("update", light_path, contents_name, <<>>))
    /\ idx' = 1
    /\ pc' = "update_loop"
    /\ UNCHANGED <<made, fs, dirs, drawVars, orderVars>>

\* faulty variant, for comparison: the failure is caught and the manifest taken to have no images
UpdateRaise_Swallowed ==
    /\ pc = "update"
    /\ FormOf(fs) \in BadForms
    /\ read_form' = FormOf(fs)
    /\ images' = <<>>
    /\ log' = Append(log, Event("update", light_path, contents_name, <<>>))
    /\ idx' = 1
    /\ pc' = "update_loop"
    /\ UNCHANGED <<made, fs, dirs, drawVars, orderVars>>

\* open raises FileNotFoundError, json.load JSONDecodeError, contents['images']
\* KeyError: nothing catches it, the script ends with a traceback
UpdateRaise ==
    /\ pc = "update"
    /\ FormOf(fs) \in BadForms
    /\ read_form' = FormOf(fs)
    /\ log' = log \o <<Event("update", light_path, contents_name, <<>>),
                       Event("raise", light_path, contents_name, <<>>)>>
    /\ pc' = "error"
    /\ UNCHANGED <<idx, made, fs, dirs, images, drawVars, orderVars>>

\* the image entry a step of the for loop handles copies its dark file
Copies(f, image) ==
    /\ FilenameOf(image) # <<>>
    /\ Exists(f, dark_path, DarkName(FilenameOf(image)))

\* one iteration of: for image in contents['images']
UpdateEntry ==
    /\ pc = "update_loop"
    /\ idx <= Len(images)
    /\ IF Copies(fs, images[idx])
       THEN /\ fs' = Apply(fs, VariantCopy(FilenameOf(images[idx])))
            /\ log' = Append(log, Written(VariantCopy(FilenameOf(images[idx]))))
       ELSE UNCHANGED <<fs, log>>
    /\ idx' = idx + 1
    /\ UNCHANGED <<pc, made, dirs, images, read_form, drawVars, orderVars>>

\* the notes are printed, both functions return and __main__ prints 'Done!'
UpdateReturn ==
    /\ pc = "update_loop"
    /\ idx > Len(images)
    /\ pc' = "done"
    /\ UNCHANGED <<idx, made, fs, dirs, images, read_form, log, drawVars, orderVars>>

Next ==
    \/ AndroidLightMakedirs \/ AndroidLightSave
    \/ AndroidDarkMakedirs \/ AndroidDarkSave
    \/ IosLightMakedirs \/ IosLightSave
    \/ IosDarkMakedirs \/ IosDarkSave
    \/ UpdateLoad \/ UpdateRaise \/ UpdateEntry \/ UpdateReturn

Spec == Init /\ [][Next]_vars

----------------------------------------------------------------------------
(* The writes of a run, taken in another order *)

(* The icon saves and the dark-variant copies of a run whose manifest loads, *)
(* in the order the script makes them. The scheduler below holds writes back *)
(* and lets later ones overtake them.                                        *)
RunWrites(entries) ==
    [i \in 1..Len(android_sizes) |-> AndroidSave(i, FALSE)] \o
    [i \in 1..Len(android_sizes) |-> AndroidSave(i, TRUE)] \o
    [i \in 1..Len(ios_sizes) |-> IosSave(i, FALSE)] \o
    [i \in 1..Len(ios_sizes) |-> IosSave(i, TRUE)] \o
    [i \in 1..Len(entries) |-> VariantCopy(FilenameOf(entries[i]))]

\* a copy for an entry without a filename is never made
Effective(op) == op.kind = "save" \/ op.from # <<>>

\* the files after the writes ops[lo..hi], made in that order
RECURSIVE ApplyRange(_, _, _, _)
ApplyRange(f, ops, lo, hi) ==
    IF lo > hi THEN f
    ELSE IF lo = hi THEN (IF Effective(ops[lo]) THEN Apply(f, ops[lo]) ELSE f)
    ELSE LET mid == (lo + hi) \div 2
             first == ApplyRange(f, ops, lo, mid)
         IN IF first = {} THEN ApplyRange({}, ops, mid + 1, hi)
            ELSE ApplyRange(first, ops, mid + 1, hi)
ApplyAll(f, ops) == ApplyRange(f, ops, 1, Len(ops))

\* a manifest with one entry of every kind
OrderManifest ==
    << Entry(TRUE, <<"Icon-App-20x20@1x", ".png">>),
       Entry(FALSE, <<>>),
       Entry(TRUE, <<"Icon-App-1024x1024@1x", ".png">>),
       Entry(TRUE, <<"Contents", ".json">>),
       Entry(TRUE, <<"Icon", ".jpg">>) >>

\* the save that writes the file a copy reads has not run yet
ReadsPending(op, pending) ==
    /\ op.kind = "copy"
    /\ \E i \in 1..Len(pending) :
          /\ pending[i].kind = "save"
          /\ pending[i].dir = dark_path
          /\ pending[i].name = op.from

Remove(seq, i) == SubSeq(seq, 1, i - 1) \o SubSeq(seq, i + 1, Len(seq))

OrderInit ==
    /\ o_pc = "writing"
    /\ o_fs \in {{File(light_path, contents_name, Json("ok", OrderManifest))} \cup p : p \in PreExisting}
    /\ o_todo = RunWrites(OrderManifest)
    /\ o_held = <<>>
    /\ o_ref = ApplyAll(o_fs, RunWrites(OrderManifest))
    /\ o_early = FALSE /\ o_moved = FALSE
    /\ RunIdle /\ DrawIdle

\* the next write of the script's order is made now
OrderWrite ==
    /\ o_pc = "writing" /\ o_todo # <<>>
    /\ o_fs' = (IF Effective(Head(o_todo)) THEN Apply(o_fs, Head(o_todo)) ELSE o_fs)
    /\ o_early' = (o_early \/ ReadsPending(Head(o_todo), o_held))
    /\ o_moved' = (o_moved \/ o_held # <<>>)
    /\ o_todo' = Tail(o_todo)
    /\ UNCHANGED <<o_pc, o_held, o_ref, runVars, drawVars>>

\* the next write is held back: the writes after it overtake it
OrderHold ==
    /\ o_pc = "writing" /\ o_todo # <<>>
    /\ Len(o_held) < MaxHeld
    /\ o_held' = Append(o_held, Head(o_todo))
    /\ o_todo' = Tail(o_todo)
    /\ UNCHANGED <<o_pc, o_fs, o_ref, o_early, o_moved, runVars, drawVars>>

\* a held write is made
OrderRelease ==
    /\ o_pc = "writing"
    /\ \E i \in 1..Len(o_held) :
          /\ o_fs' = (IF Effective(o_held[i]) THEN Apply(o_fs, o_held[i]) ELSE o_fs)
          /\ o_early' = (o_early \/ ReadsPending(o_held[i], Remove(o_held, i) \o o_todo))
          /\ o_held' = Remove(o_held, i)
    /\ UNCHANGED <<o_pc, o_todo, o_ref, o_moved, runVars, drawVars>>

OrderFinish ==
    /\ o_pc = "writing" /\ o_todo = <<>> /\ o_held = <<>>
    /\ o_pc' = "done"
    /\ UNCHANGED <<o_fs, o_todo, o_held, o_ref, o_early, o_moved, runVars, drawVars>>

OrderNext == OrderWrite \/ OrderHold \/ OrderRelease \/ OrderFinish

SpecOrder == OrderInit /\ [][OrderNext]_vars

----------------------------------------------------------------------------
(* Properties *)

Returned(img) == img # NoImage

\* C1: the image a drawing routine returns, for any size and either colour
\* mode, is exactly size pixels wide and size pixels high
C1_ImageHasRequestedSize ==
    /\ Returned(d_light) => d_light.width = d_size /\ d_light.height = d_size
    /\ Returned(d_night) => d_night.width = d_size /\ d_night.height = d_size
    /\ d_pc = "drawing" => d_img.width = d_size /\ d_img.height = d_size

C1_Witness ==
    /\ d_pc = "finished" /\ d_routine = "create_rss_icon" /\ d_size = MaxSize
    /\ Returned(d_light) /\ Returned(d_night)

\* pixels worth comparing: the corner of the canvas and, for every primitive,
\* the corners and the centre of its box
Probes(img) ==
    {<<0, 0>>} \cup
    UNION {{<<img.ops[i].box[1] \div SCALE, img.ops[i].box[2] \div SCALE>>,
            <<img.ops[i].box[3] \div SCALE, img.ops[i].box[4] \div SCALE>>,
            <<(img.ops[i].box[1] + img.ops[i].box[3]) \div (2 * SCALE),
              (img.ops[i].box[2] + img.ops[i].box[4]) \div (2 * SCALE)>>} :
           i \in 1..Len(img.ops)}

DifferSomewhere(a, b) ==
    \E p \in Probes(a) \cup Probes(b) :
        /\ OnCanvas(a, p[1], p[2])
        /\ Pixel(a, p[1], p[2]) # Pixel(b, p[1], p[2])

\* C6: for every size, the light-mode and the dark-mode image of a drawing
\* routine differ in at least one pixel
C6_LightAndDarkDiffer ==
    d_pc = "finished" => DifferSomewhere(d_light, d_night)

C6_Witness ==
    /\ d_pc = "finished" /\ d_routine = "create_icon" /\ d_size = DefaultIconSize
    /\ Pixel(d_light, book_x(d_size), book_y(d_size)) = <<66, 133, 244, 255>>
    /\ Pixel(d_night, book_x(d_size), book_y(d_size)) = <<255, 255, 255, 255>>

\* the canvas pixels inside the box of a primitive
BoxPixels(img, op) ==
    {<<x, y>> : x \in Max2(0, op.box[1] \div SCALE)..Min2(img.width - 1, op.box[3] \div SCALE),
                y \in Max2(0, op.box[2] \div SCALE)..Min2(img.height - 1, op.box[4] \div SCALE)}

\* some pixel of the canvas shows the centre dot or an arc of the RSS symbol
RssSymbolVisible(img) ==
    \E i \in 1..Len(img.ops) :
        /\ img.ops[i].part = "rss"
        /\ \E p \in BoxPixels(img, img.ops[i]) :
              /\ Covers(img.ops[i], p[1], p[2])
              /\ img.ops[TopOp(img, p[1], p[2])].part = "rss"

\* C7: the icon create_icon returns at the size main passes (1024) shows the
\* RSS symbol: its dot or one of its arcs lies at least partly on the canvas
C7_RssSymbolOnCanvas ==
    (d_routine = "create_icon" /\ d_size = DefaultIconSize /\ Returned(d_light))
        => RssSymbolVisible(d_light)

PathOf(e) == <<e.dir, e.name>>
EventsOf(kind) == {i \in 1..Len(log) : log[i].kind = kind}
SavedPaths == {PathOf(log[i]) : i \in EventsOf("save")}
CopiedPaths == {PathOf(log[i]) : i \in EventsOf("copy")}

\* the icon files a run is expected to write: directory, name, size, mode
Densities ==
    {<<"-mdpi", 48>>, <<"-hdpi", 72>>, <<"-xhdpi", 96>>, <<"-xxhdpi", 144>>, <<"-xxxhdpi", 192>>}
Icon(dir, name, size, dark) == [dir |-> dir, name |-> name, size |-> size, dark |-> dark]
WithSuffix(name, suffix) == SubSeq(name, 1, Len(name) - 1) \o <<suffix, ".png">>
ExpectedAndroid ==
    {Icon(<<"android/app/src/main/res", "/", "mipmap", d[1]>>, <<"ic_launcher", ".png">>, d[2], FALSE) : d \in Densities}
    \cup
    {Icon(<<"android/app/src/main/res", "/", "mipmap", "-night", d[1]>>, <<"ic_launcher", ".png">>, d[2], TRUE) : d \in Densities}
ExpectedIos ==
    {Icon(light_path, ios_sizes[i].filename, ios_sizes[i].size, FALSE) : i \in 1..Len(ios_sizes)}
    \cup
    {Icon(dark_path, WithSuffix(ios_sizes[i].filename, "-dark"), ios_sizes[i].size, TRUE) : i \in 1..Len(ios_sizes)}
ExpectedIcons == ExpectedAndroid \cup ExpectedIos

\* the file holds an icon of the expected size in the expected colour mode
HoldsIcon(f, e) ==
    Read(f, e.dir, e.name) =
        [kind |-> "png", width |-> e.size, height |-> e.size,
         corner |-> (IF e.dark THEN <<30, 30, 30, 255>> ELSE <<255, 255, 255, 255>>),
         form |-> "", entries |-> <<>>]

\* C2 as stated: a complete run writes exactly the expected icon files, each
\* with its table size and the colour mode of its directory, and no others
C2_WritesExactlyTheIconFiles ==
    pc = "done" =>
        /\ SavedPaths \cup CopiedPaths = {PathOf(e) : e \in ExpectedIcons}
        /\ \A e \in ExpectedIcons : HoldsIcon(fs, e)

\* C2 amended: a complete run saves exactly the expected icon files (10 for
\* Android, 30 for iOS), each once, with its table size and the colour mode of
\* its directory; the only other files it writes are the dark-variant copies,
\* one for every manifest entry with a non-empty filename whose dark file exists
C2_WritesIconFilesAndCopies ==
    pc = "done" =>
        /\ SavedPaths = {PathOf(e) : e \in ExpectedIcons}
        /\ Cardinality(EventsOf("save")) = 40
        /\ Cardinality(ExpectedIcons) = 40
        /\ \A e \in ExpectedIcons : HoldsIcon(fs, e)
        /\ CopiedPaths =
             {<<light_path, VariantName(FilenameOf(images[i]))>> :
                i \in {j \in 1..Len(images) : Copies(fs, images[j])}}

C2_Witness ==
    /\ pc = "done"
    /\ <<light_path, <<"Icon-App-20x20@1x", "~dark", ".png">>>> \in CopiedPaths

\* C3: update_ios_contents_json never modifies the manifest: no step of it
\* changes what Contents.json holds
C3_ManifestNeverModified ==
    [][(pc = "update" \/ pc = "update_loop") =>
         Read(fs', light_path, contents_name) = Read(fs, light_path, contents_name)]_vars

\* C4: a missing or malformed manifest, or one without 'images', ends the run
\* in an error: 'Done!' is not reached, nothing is written after the failure,
\* no copy was made, and the 40 icon files written before it are on disk
C4_FailurePropagates ==
    /\ read_form \in BadForms =>
          /\ pc = "error"
          /\ log[Len(log)].kind = "raise"
          /\ EventsOf("copy") = {}
          /\ \A e \in ExpectedIcons : HoldsIcon(fs, e)
    /\ pc = "error" => read_form = FormOf(fs) /\ read_form \in BadForms
    /\ pc = "done" => read_form = "ok"
    /\ (pc \in {"update_loop", "done"} /\ Len(log) > 0) => log[Len(log)].kind # "raise"

C4_Witness ==
    pc = "error" /\ read_form = "malformed" /\ Cardinality(SavedPaths) = 40

\* C9: in update_ios_contents_json an entry copies a file iff it has a non-empty
\* filename whose dark file exists; the copy goes to the '~dark.png' variant in
\* the light set; other entries change nothing; and no light icon file named in
\* the manifest is overwritten by a copy
C9_CopyOnlyAddsVariants ==
    [][(pc = "update_loop" /\ idx <= Len(images)) =>
         LET filename == FilenameOf(images[idx])
             copies == filename # <<>> /\ Exists(fs, dark_path, DarkName(filename))
             copy == Event("copy", light_path, VariantName(filename), DarkName(filename))
         IN /\ copies =>
                 /\ fs' = Write(fs, light_path, VariantName(filename),
                                Read(fs, dark_path, DarkName(filename)))
                 /\ log' = Append(log, copy)
            /\ ~copies => fs' = fs /\ log' = log
            /\ \A j \in 1..Len(images) :
                  (FilenameOf(images[j]) # <<>> /\ Exists(fs, light_path, FilenameOf(images[j])))
                      => Read(fs', light_path, FilenameOf(images[j]))
                           = Read(fs, light_path, FilenameOf(images[j]))]_vars

SavesBefore(k) == {PathOf(log[j]) : j \in {i \in 1..(k - 1) : log[i].kind = "save"}}

\* C10: every save and every copy goes to a directory an earlier os.makedirs
\* of the same run created; update_ios_contents_json is called after the 30 iOS
\* icons are written, and those are written after the 10 Android icons
C10_DirectoriesAndOrder ==
    \A k \in 1..Len(log) :
        /\ log[k].kind \in {"save", "copy"} =>
              \E j \in 1..(k - 1) : log[j].kind = "makedirs" /\ log[j].dir = log[k].dir
        /\ log[k].kind = "update" =>
              {PathOf(e) : e \in ExpectedIos} \subseteq SavesBefore(k)
        /\ (log[k].kind = "save" /\ log[k].dir \in {light_path, dark_path}) =>
              {PathOf(e) : e \in ExpectedAndroid} \subseteq SavesBefore(k)

C10_Witness ==
    /\ pc = "update_loop" /\ idx > 1
    /\ EventsOf("copy") # {}
    /\ Cardinality(EventsOf("makedirs")) = 12

\* C5 as stated: every ordering of the saves and copies of a run ends with the
\* same files, holding the same contents, as the script's own order
C5_AnyOrderSameFiles ==
    o_pc = "done" => o_fs = o_ref

\* C5 amended: the icon saves are order-insensitive, the copies are not: every
\* ordering in which each copy runs after the save of the dark file it reads
\* ends with the same files, holding the same contents, as the script's order
C5_SameFilesWhenCopiesFollowSaves ==
    (o_pc = "done" /\ ~o_early) => o_fs = o_ref

C5_Witness ==
    /\ o_pc = "done" /\ o_moved /\ ~o_early
    /\ Exists(o_fs, light_path, <<"Icon-App-1024x1024@1x", "~dark", ".png">>)

====
